---- MODULE Spec2Model ----
(***************************************************************************)
(* Prometh-Review: the pull-request review pipeline of                     *)
(* src/prometh/prometh_cli.py as a state machine.                          *)
(*                                                                         *)
(* Text is modelled as sequences of tokens: a path and a file type are     *)
(* sequences of characters, a command line is a sequence of arguments and  *)
(* every argument is a sequence of tokens, a tool output is a sequence of  *)
(* line records, a conversation is a sequence of role/content records.     *)
(***************************************************************************)
EXTENDS Integers, Sequences, FiniteSets, TLC

VARIABLES args, environ, changes, pc, status, data, diff_name_status_output,
          diff_modified_output, diff_output, messages, response, calls, failed_calls,
          turns, user_input, console

vars == <<args, environ, changes, pc, status, data, diff_name_status_output,
          diff_modified_output, diff_output, messages, response, calls, failed_calls,
          turns, user_input, console>>

\* ------------------------------------------------------------------ bounds
MaxTurns == 2
MaxChanges == 2

\* ------------------------------------------------------- generic helpers
Range(s) == {s[i] : i \in 1..Len(s)}

IsPrefix(s, t) == Len(s) <= Len(t) /\ \A i \in 1..Len(s) : s[i] = t[i]

\* ------------------------------------------------------ program constants
\* a dispatch that takes every identifier starting with "gpt" for a hosted one
OPENAI_GPT_TYPES_Prefix ==
    {"gpt-3.5-turbo", "gpt-3.5-turbo-16k", "gpt-3.5-turbo-0301", "gpt-4", "gpt-4-32k", "gpt"}

OPENAI_GPT_TYPES == {"gpt-3.5-turbo", "gpt-3.5-turbo-16k", "gpt-3.5-turbo-0301", "gpt-4"}

\* the parameters of generate_llm_response; none of them has a default
generate_llm_response_params == <<"gpt_type", "messages", "llm_url">>

\* ------------------------------------------------------------ input sets
ModelIds == {"gpt-3.5-turbo", "gpt-3.5-turbo-16k", "gpt-3.5-turbo-0301", "gpt-4",
             "gpt-4-32k", "gpt", "GPT-4", "llama-local"}
LlmUrls == {"None", "http://localhost:8000"}
Services == {"stash", "bitbucket", "github", "manual"}
ContextLines == {0, 10}
UserInputs == {"exit", "Exit", " exit", "", "why?"}
Replies == {"reply-a", "reply-b"}

md == <<"m", "d">>
py == <<"p", "y">>
ExcludeLists == {<<>>, <<md>>, <<md, py>>}

\* the changed paths a revision range may report, in the order git lists them
ChangeUniverse ==
    << [kind |-> "M", path |-> <<"R", ".", "m", "d">>],
       [kind |-> "A", path |-> <<"a", ".", "p", "y">>],
       [kind |-> "M", path |-> <<"c", "m", "d">>],
       [kind |-> "D", path |-> <<"d", ".", "m", "d">>],
       [kind |-> "M", path |-> <<"m", ".", "p", "y">>] >>

SubSeqOf(u, S) == SelectSeq(u, LAMBDA e : e \in S)

ChangeSets == {SubSeqOf(ChangeUniverse, S) : S \in {T \in SUBSET Range(ChangeUniverse) : Cardinality(T) <= MaxChanges}}

\* ------------------------------------------------ formatting and matching
Digits == <<"0", "1", "2", "3", "4", "5", "6", "7", "8", "9">>

\* str(n) of a non-negative integer, as a sequence of digit characters
RECURSIVE IntStr(_)
IntStr(n) == IF n < 10 THEN <<Digits[n + 1]>> ELSE IntStr(n \div 10) \o <<Digits[(n % 10) + 1]>>

\* wildcard match of a whole path against a pattern; "*" matches any run of
\* characters (git matches a pathspec without the glob magic this way)
RECURSIVE GlobMatch(_, _)
GlobMatch(p, s) ==
    IF p = <<>> THEN s = <<>>
    ELSE IF Head(p) = "*"
         THEN GlobMatch(Tail(p), s) \/ (s # <<>> /\ GlobMatch(p, Tail(s)))
         ELSE s # <<>> /\ Head(p) = Head(s) /\ GlobMatch(Tail(p), Tail(s))

\* ------------------------------------------- the diff commands main builds
NameStatusCmd(from_commit, to_commit) ==
    << <<"git">>, <<"diff">>, <<"--name-status">>, from_commit, to_commit >>

\* the filter assigned, not extended, under exhaustive analysis
DiffFilter_Assigned(exhaustive_analysis) ==
    IF exhaustive_analysis THEN <<"A">> ELSE <<"M">>

DiffFilter(exhaustive_analysis) ==
    IF exhaustive_analysis THEN <<"M">> \o <<"A">> ELSE <<"M">>

\* the exclusion pattern without its wildcard
ExcludeArg_NoWildcard(t) == <<":(exclude)">> \o t

ExcludeArg(t) == <<":(exclude)", "*">> \o t

UnifiedDiffCmd(a, from_commit, to_commit) ==
    << <<"git">>, <<"diff">>, <<"--diff-filter=">> \o DiffFilter(a.exhaustive_analysis),
       <<"-U">> \o IntStr(a.nb_context_lines), from_commit, to_commit >>
    \o (IF Len(a.exclude_file_types) > 0
        THEN << <<"--">>, <<".">> >>
             \o [i \in 1..Len(a.exclude_file_types) |-> ExcludeArg(a.exclude_file_types[i])]
        ELSE <<>>)

\* --------------------------------------------- the diff tool (git diff)
AllKinds == {"A", "D", "M"}

SepIndex(cmd) ==
    IF \E i \in 1..Len(cmd) : cmd[i] = <<"--">>
    THEN CHOOSE i \in 1..Len(cmd) : cmd[i] = <<"--">> /\ \A j \in 1..(i - 1) : cmd[j] # <<"--">>
    ELSE 0

GitOptions(cmd) == IF SepIndex(cmd) = 0 THEN cmd ELSE SubSeq(cmd, 1, SepIndex(cmd) - 1)

GitPathspecs(cmd) == IF SepIndex(cmd) = 0 THEN <<>> ELSE SubSeq(cmd, SepIndex(cmd) + 1, Len(cmd))

GitFilterKinds(cmd) ==
    IF \E o \in Range(GitOptions(cmd)) : Head(o) = "--diff-filter="
    THEN UNION {Range(Tail(o)) : o \in {x \in Range(GitOptions(cmd)) : Head(x) = "--diff-filter="}}
    ELSE AllKinds

GitExcludePatterns(cmd) == {Tail(a) : a \in {x \in Range(GitPathspecs(cmd)) : Head(x) = ":(exclude)"}}

GitIncludePatterns(cmd) == {x \in Range(GitPathspecs(cmd)) : Head(x) # ":(exclude)"}

GitPathSelected(cmd, path) ==
    /\ (GitIncludePatterns(cmd) = {} \/ \E p \in GitIncludePatterns(cmd) : p = <<".">> \/ GlobMatch(p, path))
    /\ \A p \in GitExcludePatterns(cmd) : ~GlobMatch(p, path)

\* the output of one git diff run: one line record per reported path
GitDiff(cmd, chg) ==
    LET sel == SelectSeq(chg, LAMBDA c : c.kind \in GitFilterKinds(cmd) /\ GitPathSelected(cmd, c.path))
        t == IF <<"--name-status">> \in Range(GitOptions(cmd)) THEN "name-status" ELSE "diff"
    IN [i \in 1..Len(sel) |-> [t |-> t, kind |-> sel[i].kind, path |-> sel[i].path]]

NL == [t |-> "newline", kind |-> "", path |-> <<>>]

\* the two outputs joined without the blank line
Concat_NoSeparator(name_status, modified) == name_status \o modified

\* diff_name_status_output + "\n\n" + diff_modified_output
Concat(name_status, modified) == name_status \o <<NL, NL>> \o modified

\* ----------------------------------------------------------- LLM client
NoRequest == <<>>

LlmRequest(to, model, msgs, url) ==
    [to |-> to, cmd |-> <<>>, model |-> model, messages |-> msgs, url |-> url]

\* generate_llm_response without the check of OPENAI_API_KEY
generate_llm_response_NoKeyCheck(gpt_type, msgs, llm_url, env, backend) ==
    IF gpt_type \in {"gpt-3.5-turbo", "gpt-3.5-turbo-16k", "gpt-3.5-turbo-0301", "gpt-4"}
    THEN [branch |-> "hosted",
          raised |-> IF backend = "fail" THEN "APIError" ELSE "none",
          request |-> <<LlmRequest("hosted", gpt_type, msgs, "")>>,
          response |-> IF backend = "fail" THEN "No Response" ELSE backend]
    ELSE IF llm_url = "None"
         THEN [branch |-> "self-hosted", raised |-> "MissingSchema", request |-> NoRequest, response |-> "No Response"]
         ELSE [branch |-> "self-hosted",
               raised |-> IF backend = "fail" THEN "RequestException" ELSE "none",
               request |-> <<LlmRequest("self-hosted", gpt_type, msgs, llm_url)>>,
               response |-> IF backend = "fail" THEN "No Response" ELSE backend]

\* backend is what the contacted service does: "fail" or the reply it sends
generate_llm_response(gpt_type, msgs, llm_url, env, backend) ==
    IF gpt_type \in OPENAI_GPT_TYPES
    THEN IF ~env.OPENAI_API_KEY
         THEN [branch |-> "hosted", raised |-> "ValueError", request |-> NoRequest, response |-> "No Response"]
         ELSE [branch |-> "hosted",
               raised |-> IF backend = "fail" THEN "APIError" ELSE "none",
               request |-> <<LlmRequest("hosted", gpt_type, msgs, "")>>,
               response |-> IF backend = "fail" THEN "No Response" ELSE backend]
    ELSE IF llm_url = "None"
         THEN [branch |-> "self-hosted", raised |-> "MissingSchema", request |-> NoRequest, response |-> "No Response"]
         ELSE [branch |-> "self-hosted",
               raised |-> IF backend = "fail" THEN "RequestException" ELSE "none",
               request |-> <<LlmRequest("self-hosted", gpt_type, msgs, llm_url)>>,
               response |-> IF backend = "fail" THEN "No Response" ELSE backend]

\* the position in the log of a request that was issued and failed
FailedRequest(log, r) == IF r.request # NoRequest /\ r.raised # "none" THEN {Len(log) + 1} ELSE {}

\* a call binds when every parameter (none has a default) gets an argument
CallBinds(params, call_args) == Len(call_args) = Len(params)

\* the arguments of the two calls of generate_llm_response
StartCallArgs == <<"gpt_type", "messages", "llm_url">>
TurnCallArgs == <<"args.llm_type", "messages">>

Message(role, content) == [role |-> role, content |-> content]

\* a list.append that overwrites the last entry instead of growing the list
Append_Overwrite(msgs, m) == IF msgs = <<>> THEN <<m>> ELSE SubSeq(msgs, 1, Len(msgs) - 1) \o <<m>>

\* list.append
Append_(msgs, m) == msgs \o <<m>>

\* the seed conversation of analyze_pr_with_GPT
SeedMessages(pr_title, pr_description, diff) ==
    << Message("system", <<"prompt">>),
       Message("user", <<"pr_description_message", pr_title, pr_description>>),
       Message("user", <<"diff_message", diff>>),
       Message("user", <<"final_message">>) >>

\* ------------------------------------------------------------ the program
NoData == [from_commit |-> <<>>, to_commit |-> <<>>, pr_title |-> "", pr_description |-> "", pr_link |-> ""]

PrData == [from_commit |-> <<"a1">>, to_commit |-> <<"b2">>, pr_title |-> "title",
           pr_description |-> "description", pr_link |-> "link"]

ExternalCall(to, cmd) == [to |-> to, cmd |-> cmd, model |-> "", messages |-> <<>>, url |-> ""]

\* the state after get_args: the parsed arguments, the environment and the
\* repository the process runs in
Init ==
    /\ args \in [service : Services, llm_type : ModelIds, llm_url : LlmUrls,
                 nb_context_lines : ContextLines, show_diff_only : BOOLEAN,
                 interactive : BOOLEAN, exhaustive_analysis : BOOLEAN,
                 exclude_file_types : ExcludeLists]
    /\ environ \in [STASH_HTTP_ACCESS_TOKEN : BOOLEAN, OPENAI_API_KEY : BOOLEAN]
    /\ changes \in ChangeSets
    /\ pc = "select_service"
    /\ status = "running"
    /\ data = NoData
    /\ diff_name_status_output = <<>>
    /\ diff_modified_output = <<>>
    /\ diff_output = <<>>
    /\ messages = <<>>
    /\ calls = <<>>
    /\ failed_calls = {}
    /\ turns = 0
    /\ user_input = "<unset>"
    /\ response = "<unset>"
    /\ console = <<>>

Terminate(how) == pc' = "done" /\ status' = how

\* main, lines 249-256: the service choice and the StashAPI constructor
SelectService ==
    /\ pc = "select_service"
    /\ IF args.service \in {"stash", "bitbucket"}
       THEN IF environ.STASH_HTTP_ACCESS_TOKEN
            THEN pc' = "get_data" /\ status' = status
            ELSE Terminate("KeyError")
       ELSE Terminate("NotImplementedError")
    /\ UNCHANGED <<args, environ, changes, data, diff_name_status_output, diff_modified_output,
                   diff_output, messages, response, calls, failed_calls, turns, user_input,
                   console>>

\* main, lines 257-267: the two requests of get_data; any failure is caught
\* and ends the process with exit(1). A request fails by raising (no
\* connection, a body that is no JSON), which skips the rest of get_data, or
\* by a rejection whose JSON body lacks the keys read on lines 119-130: that
\* is noticed only after both requests were issued.
GetData ==
    /\ pc = "get_data"
    /\ \E outcome \in {"ok", "info_raises", "info_rejected", "diff_raises", "diff_rejected"} :
         /\ calls' = calls \o <<ExternalCall("stash-info", <<>>)>>
                           \o (IF outcome = "info_raises" THEN <<>> ELSE <<ExternalCall("stash-diff", <<>>)>>)
         /\ failed_calls' = failed_calls \cup
                (CASE outcome \in {"info_raises", "info_rejected"} -> {Len(calls) + 1}
                   [] outcome \in {"diff_raises", "diff_rejected"} -> {Len(calls) + 2}
                   [] OTHER -> {})
         /\ IF outcome = "ok"
            THEN data' = PrData /\ pc' = "name_status" /\ status' = status
            ELSE data' = data /\ Terminate("exit(1)")
    /\ UNCHANGED <<args, environ, changes, diff_name_status_output, diff_modified_output,
                   diff_output, messages, response, turns, user_input, console>>

\* a name-status run whose failure is swallowed: the run goes on with an
\* empty listing
NameStatus_Recovering ==
    /\ pc = "name_status"
    /\ LET cmd == NameStatusCmd(data.from_commit, data.to_commit) IN
       /\ calls' = calls \o <<ExternalCall("git", cmd)>>
       /\ \E ok \in BOOLEAN :
            /\ diff_name_status_output' = IF ok THEN GitDiff(cmd, changes) ELSE <<>>
            /\ failed_calls' = IF ok THEN failed_calls ELSE failed_calls \cup {Len(calls')}
       /\ pc' = "unified_diff" /\ status' = status
    /\ UNCHANGED <<args, environ, changes, data, diff_modified_output, diff_output, messages,
                   response, turns, user_input, console>>

\* main, lines 276-277
NameStatus ==
    /\ pc = "name_status"
    /\ LET cmd == NameStatusCmd(data.from_commit, data.to_commit) IN
       /\ calls' = calls \o <<ExternalCall("git", cmd)>>
       /\ \E ok \in BOOLEAN :
            IF ok
            THEN diff_name_status_output' = GitDiff(cmd, changes) /\ pc' = "unified_diff" /\ status' = status
            ELSE diff_name_status_output' = diff_name_status_output /\ Terminate("CalledProcessError")
       /\ failed_calls' = IF pc' = "done" THEN failed_calls \cup {Len(calls')} ELSE failed_calls
    /\ UNCHANGED <<args, environ, changes, data, diff_modified_output, diff_output, messages,
                   response, turns, user_input, console>>

\* main, lines 279-293
UnifiedDiff ==
    /\ pc = "unified_diff"
    /\ LET cmd == UnifiedDiffCmd(args, data.from_commit, data.to_commit) IN
       /\ calls' = calls \o <<ExternalCall("git", cmd)>>
       /\ \E ok \in BOOLEAN :
            IF ok
            THEN diff_modified_output' = GitDiff(cmd, changes) /\ pc' = "bundle" /\ status' = status
            ELSE diff_modified_output' = diff_modified_output /\ Terminate("CalledProcessError")
       /\ failed_calls' = IF pc' = "done" THEN failed_calls \cup {Len(calls')} ELSE failed_calls
    /\ UNCHANGED <<args, environ, changes, data, diff_name_status_output, diff_output, messages,
                   response, turns, user_input, console>>

\* main, lines 294-305
Bundle ==
    /\ pc = "bundle"
    /\ console' = IF Len(diff_modified_output) = 0
                  THEN console \o <<"No file modifications in the PR">>
                  ELSE console
    /\ diff_output' = Concat(diff_name_status_output, diff_modified_output)
    /\ IF args.show_diff_only
       THEN Terminate("exit(0)")
       ELSE IF Len(diff_output') = 0
            THEN Terminate("Exception: No diff output")
            ELSE pc' = "build_prompt" /\ status' = status
    /\ UNCHANGED <<args, environ, changes, data, diff_name_status_output, diff_modified_output,
                   messages, response, calls, failed_calls, turns, user_input>>

\* analyze_pr_with_GPT, lines 172-227: the seed conversation
BuildPrompt ==
    /\ pc = "build_prompt"
    /\ messages' = SeedMessages(data.pr_title, data.pr_description, diff_output)
    /\ pc' = "seeded"
    /\ UNCHANGED <<args, environ, changes, status, data, diff_name_status_output,
                   diff_modified_output, diff_output, response, calls, failed_calls, turns,
                   user_input, console>>

\* analyze_pr_with_GPT, lines 229-234, called from main, lines 307-325: the
\* initial review
StartReview ==
    /\ pc = "seeded"
    /\ \E backend \in Replies \cup {"fail"} :
         IF ~CallBinds(generate_llm_response_params, StartCallArgs)
         THEN messages' = messages /\ response' = response /\ calls' = calls /\ failed_calls' = failed_calls
                    /\ Terminate("TypeError")
         ELSE LET r == generate_llm_response(args.llm_type, messages, args.llm_url, environ, backend) IN
              /\ calls' = calls \o r.request
              /\ failed_calls' = failed_calls \cup FailedRequest(calls, r)
              /\ IF r.raised # "none"
                 THEN messages' = messages /\ response' = response /\ Terminate(r.raised)
                 ELSE /\ response' = r.response
                      /\ messages' = Append_(messages, Message("assistant", <<r.response>>))
                      /\ pc' = "reviewed" /\ status' = status
    /\ UNCHANGED <<args, environ, changes, data, diff_name_status_output, diff_modified_output,
                   diff_output, turns, user_input, console>>

\* main, lines 327-330: without the interactive flag main returns
AfterReview ==
    /\ pc = "reviewed"
    /\ IF args.interactive
       THEN pc' = "chat_input" /\ status' = status
       ELSE Terminate("returned")
    /\ UNCHANGED <<args, environ, changes, data, diff_name_status_output, diff_modified_output,
                   diff_output, messages, response, calls, failed_calls, turns, user_input,
                   console>>

\* main, lines 332-340: one iteration of the interactive loop
Turn(input) ==
    /\ pc = "chat_input"
    /\ turns < MaxTurns
    /\ user_input' = input
    /\ IF input = "exit"
       THEN /\ messages' = messages /\ response' = response /\ calls' = calls /\ failed_calls' = failed_calls
            /\ turns' = turns
            /\ Terminate("exit(0)")
       ELSE LET sent == Append_(messages, Message("user", <<input>>)) IN
            /\ turns' = turns + 1
            /\ IF ~CallBinds(generate_llm_response_params, TurnCallArgs)
               THEN messages' = sent /\ response' = response /\ calls' = calls /\ failed_calls' = failed_calls
                    /\ Terminate("TypeError")
               ELSE \E backend \in Replies \cup {"fail"} :
                      LET r == generate_llm_response(args.llm_type, sent, args.llm_url, environ, backend) IN
                      /\ calls' = calls \o r.request
                      /\ failed_calls' = failed_calls \cup FailedRequest(calls, r)
                      /\ IF r.raised # "none"
                         THEN messages' = sent /\ response' = response /\ Terminate(r.raised)
                         ELSE /\ response' = r.response
                              /\ messages' = Append_(sent, Message("assistant", <<r.response>>))
                              /\ pc' = "chat_input" /\ status' = status
    /\ UNCHANGED <<args, environ, changes, data, diff_name_status_output, diff_modified_output,
                   diff_output, console>>

Next ==
    \/ SelectService
    \/ GetData
    \/ NameStatus
    \/ UnifiedDiff
    \/ Bundle
    \/ BuildPrompt
    \/ StartReview
    \/ AfterReview
    \/ \E input \in UserInputs : Turn(input)

Spec == Init /\ [][Next]_vars

TypeOK ==
    /\ pc \in {"select_service", "get_data", "name_status", "unified_diff", "bundle",
               "build_prompt", "seeded", "reviewed", "chat_input", "llm_call", "done"}
    /\ (pc = "done") = (status # "running")
    /\ turns \in 0..MaxTurns

\* ------------------------------------- generate_llm_response on its own
\* the conversations handed to generate_llm_response, the empty one included
Conversations ==
    LET seed == SeedMessages("title", "description", Concat(<<>>, <<>>)) IN
    { <<>>,
      <<Message("user", <<"why?">>)>>,
      seed,
      Append_(seed, Message("assistant", <<"reply-a">>)) }

InitLLM ==
    /\ args \in [service : {"stash"}, llm_type : ModelIds, llm_url : LlmUrls,
                 nb_context_lines : {10}, show_diff_only : {FALSE},
                 interactive : {FALSE}, exhaustive_analysis : {FALSE},
                 exclude_file_types : {<<>>}]
    /\ environ \in [STASH_HTTP_ACCESS_TOKEN : {TRUE}, OPENAI_API_KEY : BOOLEAN]
    /\ changes = <<>>
    /\ pc = "llm_call"
    /\ status = "running"
    /\ data = NoData
    /\ diff_name_status_output = <<>>
    /\ diff_modified_output = <<>>
    /\ diff_output = <<>>
    /\ messages \in Conversations
    /\ calls = <<>>
    /\ failed_calls = {}
    /\ turns = 0
    /\ user_input = "<unset>"
    /\ response = "<unset>"
    /\ console = <<>>

\* one call generate_llm_response(args.llm_type, messages, args.llm_url)
Send ==
    /\ pc = "llm_call"
    /\ \E backend \in Replies \cup {"fail"} :
         LET r == generate_llm_response(args.llm_type, messages, args.llm_url, environ, backend) IN
         /\ calls' = calls \o r.request
         /\ failed_calls' = failed_calls \cup FailedRequest(calls, r)
         /\ response' = IF r.raised # "none" THEN response ELSE r.response
         /\ Terminate(IF r.raised # "none" THEN r.raised ELSE "returned")
    /\ UNCHANGED <<args, environ, changes, data, diff_name_status_output, diff_modified_output,
                   diff_output, messages, turns, user_input, console>>

NextLLM == Send

SpecLLM == InitLLM /\ [][NextLLM]_vars

\* ------------------------------------------------------------- the claims
Roles(msgs) == [i \in 1..Len(msgs) |-> msgs[i].role]

SeedRoles == <<"system", "user", "user", "user">>

RECURSIVE TurnRoles(_)
TurnRoles(k) == IF k = 0 THEN <<>> ELSE TurnRoles(k - 1) \o <<"user", "assistant">>

LlmStatuses == {"ValueError", "APIError", "MissingSchema", "RequestException"}

LlmCalls == SelectSeq(calls, LAMBDA c : c.to \in {"hosted", "self-hosted"})

\* C1: the conversation is seeded with the 4 messages [system, user, user,
\* user]; the initial review appends 1 assistant message (length 5); every
\* turn with a non-sentinel input appends a user message carrying the input
\* and an assistant message carrying the reply, so after k turns whose LLM
\* request did not fail the roles are the 5 initial ones followed by k
\* user/assistant pairs.
C1_SeedReviewTurns ==
    /\ pc = "seeded" => Roles(messages) = SeedRoles
    /\ pc = "reviewed" => Roles(messages) = SeedRoles \o <<"assistant">>
    /\ (turns > 0 \/ pc = "chat_input") /\ status \notin LlmStatuses =>
          /\ Roles(messages) = SeedRoles \o <<"assistant">> \o TurnRoles(turns)
          /\ turns > 0 => /\ messages[Len(messages) - 1].content = <<user_input>>
                          /\ messages[Len(messages)].content = <<response>>

\* C2: the conversation is append-only: every step leaves the conversation
\* it found as a prefix of the conversation it produces.
C2_AppendOnly == [][IsPrefix(messages, messages')]_vars

\* C2 witness: a turn has appended to the conversation of the initial review
C2_Witness == turns > 0 /\ Len(messages) > 5 /\ Roles(SubSeq(messages, 1, 5)) = SeedRoles \o <<"assistant">>

\* the session state of the review: Seeded once the seed conversation is
\* built, Reviewed after the initial review, Chatting after a completed
\* turn, Closed after a return or exit(0), Failed after a failed LLM call,
\* Crashed after any other exception
Phase ==
    CASE pc = "seeded" -> "Seeded"
      [] pc = "reviewed" \/ (pc = "chat_input" /\ turns = 0) -> "Reviewed"
      [] pc = "chat_input" /\ turns > 0 -> "Chatting"
      [] pc = "done" /\ messages # <<>> /\ status \in {"returned", "exit(0)"} -> "Closed"
      [] pc = "done" /\ messages # <<>> /\ status \in LlmStatuses -> "Failed"
      [] pc = "done" /\ messages # <<>> /\ status \notin {"returned", "exit(0)"} \cup LlmStatuses -> "Crashed"
      [] OTHER -> "None"

C3_Transitions ==
    { <<"None", "None">>, <<"None", "Seeded">>,
      <<"Seeded", "Reviewed">>, <<"Seeded", "Failed">>,
      <<"Reviewed", "Reviewed">>, <<"Reviewed", "Chatting">>, <<"Reviewed", "Closed">>, <<"Reviewed", "Failed">>,
      <<"Chatting", "Chatting">>, <<"Chatting", "Closed">>, <<"Chatting", "Failed">> }

\* C3: the session follows Seeded -> Reviewed -> (Chatting)* -> Closed (a
\* failed LLM request may end it from any of them): the initial review is
\* the only step out of Seeded, Chatting is entered only from Reviewed or
\* Chatting, by a turn, in interactive mode, every turn whose LLM request
\* does not fail enters it, and nothing is appended or requested after the
\* session closed.
C3_StateMachine ==
    [][ /\ <<Phase, Phase'>> \in C3_Transitions
        /\ Phase' = "Chatting" => args.interactive /\ turns' = turns + 1
        /\ turns' = turns + 1 => Phase' \in {"Chatting", "Failed"}
        /\ Phase \in {"Closed", "Failed"} => messages' = messages /\ calls' = calls ]_vars

\* C4: the input "exit", and no other, ends the session: for it no user
\* message is appended and no LLM request is sent; every other input is
\* appended as a user message and leaves the session open for the next
\* input (unless its LLM request fails).
C4_Sentinel ==
    user_input # "<unset>" =>
        IF user_input = "exit"
        THEN /\ status = "exit(0)"
             /\ messages[Len(messages)].role = "assistant"
             /\ Len(LlmCalls) = Cardinality({i \in 1..Len(messages) : messages[i].role = "assistant"})
        ELSE /\ \E i \in 1..Len(messages) : messages[i] = Message("user", <<user_input>>)
             /\ pc = "chat_input" \/ status \in LlmStatuses

HostedIds == {"gpt-3.5-turbo", "gpt-3.5-turbo-16k", "gpt-3.5-turbo-0301", "gpt-4"}

\* C5 as claimed: every call of generate_llm_response on an empty
\* conversation fails with a configuration-level error and issues no request.
C5_EmptyRejected ==
    pc = "done" /\ messages = <<>> => status \in {"ValueError", "MissingSchema"} /\ calls = <<>>

\* C5 amended: a call on an empty conversation is dispatched like any other:
\* it fails without a request only when the hosted identifier has no API key
\* or the self-hosted one no URL; otherwise one request carrying zero
\* messages goes to the backend the identifier selects.
C5_EmptyDispatched ==
    pc = "done" /\ messages = <<>> =>
        IF args.llm_type \in HostedIds /\ ~environ.OPENAI_API_KEY
        THEN status = "ValueError" /\ calls = <<>>
        ELSE IF args.llm_type \notin HostedIds /\ args.llm_url = "None"
        THEN status = "MissingSchema" /\ calls = <<>>
        ELSE /\ Len(calls) = 1
             /\ calls[1].messages = <<>>
             /\ calls[1].model = args.llm_type
             /\ calls[1].to = IF args.llm_type \in HostedIds THEN "hosted" ELSE "self-hosted"

\* C5 witness: an empty conversation was sent to the hosted backend
C5_Witness ==
    /\ pc = "done" /\ messages = <<>> /\ status = "returned"
    /\ Len(calls) = 1 /\ calls[1].to = "hosted" /\ calls[1].messages = <<>>

\* C6: the four hosted identifiers, and only they, are routed to the hosted
\* variant; every other identifier goes to the self-hosted one; neither the
\* URL nor the API key changes the route.
C6_Dispatch ==
    pc = "done" =>
        LET hosted == args.llm_type \in HostedIds IN
        /\ \A i \in 1..Len(calls) : calls[i].to = IF hosted THEN "hosted" ELSE "self-hosted"
        /\ calls = <<>> => status = IF hosted THEN "ValueError" ELSE "MissingSchema"
        /\ hosted /\ environ.OPENAI_API_KEY => Len(calls) = 1
        /\ ~hosted /\ args.llm_url # "None" => Len(calls) = 1

\* C6 witness: "GPT-4" went to the self-hosted backend although the API key
\* is set
C6_Witness ==
    /\ pc = "done" /\ args.llm_type = "GPT-4" /\ environ.OPENAI_API_KEY
    /\ Len(calls) = 1 /\ calls[1].to = "self-hosted"

IsUnifiedDiffCall(c) == c.to = "git" /\ <<"--name-status">> \notin Range(c.cmd)

IsNameStatusCall(c) == c.to = "git" /\ <<"--name-status">> \in Range(c.cmd)

\* C7: for every excluded type t the unified-diff command carries, after
\* "--", the exclusion of the glob *.t; with no excluded type it carries
\* neither "--" nor an exclusion.
C7_ExcludeGlob ==
    \A i \in 1..Len(calls) :
        IsUnifiedDiffCall(calls[i]) =>
            LET cmd == calls[i].cmd IN
            IF args.exclude_file_types = <<>>
            THEN \A j \in 1..Len(cmd) : cmd[j] # <<"--">> /\ Head(cmd[j]) # ":(exclude)"
            ELSE \A t \in Range(args.exclude_file_types) :
                    \E j, k \in 1..Len(cmd) :
                        j < k /\ cmd[j] = <<"--">> /\ cmd[k] = <<":(exclude)", "*", ".">> \o t

HasExtension(path, t) ==
    /\ Len(path) > Len(t)
    /\ SubSeq(path, Len(path) - Len(t), Len(path)) = <<".">> \o t

\* C8 as claimed: the diff bundle holds no path with an excluded extension.
C8_NoExcludedPath ==
    \A t \in Range(args.exclude_file_types) :
        \A i \in 1..Len(diff_output) : ~HasExtension(diff_output[i].path, t)

\* C8 amended: the unified-diff part of the bundle holds no path with an
\* excluded extension; the name-status part is not filtered and lists every
\* changed path.
C8_UnifiedDiffOnly ==
    diff_output # <<>> =>
        /\ \A t \in Range(args.exclude_file_types) :
              \A i \in 1..Len(diff_output) :
                  diff_output[i].t = "diff" => ~HasExtension(diff_output[i].path, t)
        /\ {diff_output[i].path : i \in {j \in 1..Len(diff_output) : diff_output[j].t = "name-status"}}
              = {c.path : c \in Range(changes)}

\* C8 witness: a modified .md file is excluded, absent from the unified-diff
\* part and listed in the name-status part
C8_Witness ==
    /\ md \in Range(args.exclude_file_types)
    /\ \E c \in Range(changes) : c.kind = "M" /\ HasExtension(c.path, md)
    /\ \E i \in 1..Len(diff_output) :
          diff_output[i].t = "name-status" /\ HasExtension(diff_output[i].path, md)
    /\ \E i \in 1..Len(diff_output) : diff_output[i].t = "diff"

Paths(out) == {out[i].path : i \in 1..Len(out)}

\* C9: no name-status command carries a change-kind filter; the unified-diff
\* command carries the filter {M}, or {M, A} under exhaustive analysis; so
\* the unified diff with filter {M} holds no added or deleted path, and the
\* paths under exhaustive analysis include those without it.
C9_Filters ==
    /\ \A i \in 1..Len(calls) :
          /\ IsNameStatusCall(calls[i]) =>
                \A j \in 1..Len(calls[i].cmd) : Head(calls[i].cmd[j]) # "--diff-filter="
          /\ IsUnifiedDiffCall(calls[i]) =>
                /\ Head(calls[i].cmd[3]) = "--diff-filter="
                /\ Range(Tail(calls[i].cmd[3])) = IF args.exhaustive_analysis THEN {"M", "A"} ELSE {"M"}
    /\ pc = "bundle" =>
          /\ ~args.exhaustive_analysis =>
                \A p \in Paths(diff_modified_output) :
                    \A c \in Range(changes) : c.path = p => c.kind \notin {"A", "D"}
          /\ LET with == [args EXCEPT !.exhaustive_analysis = TRUE]
                 without == [args EXCEPT !.exhaustive_analysis = FALSE]
             IN /\ Paths(GitDiff(UnifiedDiffCmd(without, data.from_commit, data.to_commit), changes))
                      \subseteq Paths(GitDiff(UnifiedDiffCmd(with, data.from_commit, data.to_commit), changes))
                /\ Paths(diff_modified_output)
                      = Paths(GitDiff(UnifiedDiffCmd(args, data.from_commit, data.to_commit), changes))

\* C9 witness: an added and a modified file changed; without exhaustive
\* analysis the unified diff holds the modified one alone
C9_Witness ==
    /\ pc = "bundle" /\ ~args.exhaustive_analysis
    /\ \E c \in Range(changes) : c.kind = "A"
    /\ Len(diff_name_status_output) = 2
    /\ Len(diff_modified_output) = 1 /\ diff_modified_output[1].kind = "M"

\* C10: an empty unified diff raises nothing: it is reported, and the run
\* goes on to the LLM review, or, in diff-only mode, ends with exit(0)
\* without an LLM request; the "No diff output" exception is never raised.
C10_EmptyDiffNoError ==
    /\ status # "Exception: No diff output"
    /\ (pc \notin {"select_service", "get_data", "name_status", "unified_diff", "bundle"}
        /\ data # NoData /\ status # "CalledProcessError" /\ diff_modified_output = <<>>) =>
          /\ console = <<"No file modifications in the PR">>
          /\ IF args.show_diff_only
             THEN status = "exit(0)" /\ LlmCalls = <<>> /\ messages = <<>>
             ELSE pc = "done" => messages # <<>>

\* C10 witness: both outputs are empty and the run reached the LLM stage
C10_Witness ==
    /\ pc = "seeded" /\ diff_modified_output = <<>> /\ diff_name_status_output = <<>>
    /\ console # <<>> /\ Len(diff_output) = 2

ErrorStatuses == {"exit(1)", "CalledProcessError", "APIError", "RequestException"}

\* C11 as claimed: once an external call has failed no further external
\* call is issued and the run ends in an error state; a failed LLM request
\* leaves the conversation as it was sent, without an assistant message.
C11_FailureStops ==
    \A i \in failed_calls :
        /\ i = Len(calls)
        /\ pc = "done" /\ status \in ErrorStatuses
        /\ calls[i].to \in {"hosted", "self-hosted"} => messages = calls[i].messages

\* C11 amended: no call is issued twice and every failed call ends the run
\* in an error state; no further external call follows a failed one, except
\* that the diff-range fetch is still issued after a pull-request metadata
\* fetch that the backend rejected, the rejection being noticed only when
\* both responses are read; a failed LLM request leaves the conversation as
\* it was sent, without an assistant message.
C11_FailureEndsRun ==
    /\ \A i, j \in 1..Len(calls) : i # j => calls[i] # calls[j]
    /\ \A i \in failed_calls :
          /\ \/ i = Len(calls)
             \/ /\ calls[i].to = "stash-info"
                /\ Len(calls) = i + 1
                /\ calls[i + 1].to = "stash-diff"
          /\ pc = "done" /\ status \in ErrorStatuses
          /\ calls[i].to \in {"hosted", "self-hosted"} => messages = calls[i].messages

\* C11 witness: the initial review's request failed after four successful
\* calls and the run ended with its exception
C11_Witness ==
    /\ failed_calls = {5} /\ Len(calls) = 5
    /\ calls[5].to \in {"hosted", "self-hosted"}
    /\ pc = "done" /\ status \in {"APIError", "RequestException"}
    /\ Roles(messages) = SeedRoles

====
